---- MODULE Spec2Model ----
(***************************************************************************)
(* Model of pgfx: the context-propagated transaction manager               *)
(* (manager.transaction / ReadCommitted / MakeContextTx) and the           *)
(* dispatching executor (pgTransactor) over a pgx pool.                    *)
(*                                                                         *)
(* Every goroutine ("call chain") has its own call stack of manager        *)
(* invocations.  A handler is arbitrary user code: it may use the          *)
(* executor, call the manager again, return nil or an error, or panic.     *)
(* The pool and its transaction handles are the external collaborator:     *)
(* BeginTx, Commit and Rollback may each succeed or fail.                  *)
(*                                                                         *)
(* Errors are modelled by their unwrap chain: a sequence of error values,  *)
(* the outermost first.  fmt.Errorf("m: %w", e) allocates a new error in    *)
(* front of the chain of e; fmt.Errorf("m: %v", r) allocates a new error    *)
(* with no chain.  An error value is <<message, n>>: n is the invocation    *)
(* that allocated it, 0 for one shared value (a sentinel such as            *)
(* pgx.ErrTxClosed or context.Canceled).                                    *)
(***************************************************************************)
EXTENDS Integers, Sequences, FiniteSets, TLC

\* ------------------------------------------------------------- bounds
\* concurrent call chains (goroutines)
NumChains == 2
\* manager invocations made in one run, all chains together
MaxCalls == 2
\* manager invocations simultaneously on one call stack
MaxDepth == 2
\* executor calls made in one run, all chains together
MaxExec == 2
\* transactions begun through the executor in one run
MaxRaw == 1

Chains == 1..NumChains
\* the chain that runs alone in Spec: the first one
Main == CHOOSE c \in Chains : \A d \in Chains : c <= d

\* ------------------------------------------------------------- values
\* the nil error
Nil == <<>>
\* context.Background(): binds nothing
Background == <<>>
\* ctx.Value(TxKey) found no pgx.Tx
NoTx == 0
\* the routing target that is the pgxpool.Pool, not a handle
Pool == 0

\* errors produced by user handlers and by the pool / the handle
Sentinel(msg) == <<<<msg, 0>>>>
HandlerErrs == {Sentinel("E1")}
ErrBegin    == Sentinel("begin refused")
ErrCommit   == Sentinel("commit refused")
ErrRollback == Sentinel("rollback refused")
ErrTxClosed == Sentinel("tx is closed")

\* the operations of the executor that take the context into account, and
\* those of them that write rows
RoutedOps == {"Exec", "Query", "QueryRow", "CopyFrom"}
WriteOps == {"Exec", "CopyFrom"}

NoCall == [op |-> "none"]
Call(c, op, ctx, t) == [op |-> op, chain |-> c, ctx |-> ctx, target |-> t]

VARIABLES
    stack,      \* stack[c]: the manager invocations in progress on chain c
    handles,    \* handles[h]: the transaction handle h begun on the pool
    db,         \* the rows visible in the database (committed writes)
    calls,      \* manager invocations made so far
    execs,      \* executor calls made so far
    escaped,    \* escaped[c]: a panic left the bottom of chain c's stack
    routed,     \* the executor call made by the latest step, NoCall if none
    raws        \* raws[i]: the i-th transaction begun through the executor

vars == <<stack, handles, db, calls, execs, escaped, routed, raws>>

\* ------------------------------------------------------------- errors
\* fmt.Errorf(msg + " %w", e), called by invocation id
Wrap(msg, id, e) == <<<<msg, id>>>> \o e

\* fmt.Errorf(msg + " %v", r), called by invocation id: formats r, keeps no chain
Format(msg, id) == <<<<msg, id>>>>

\* errors.Is(err, e) for e # nil: e is met while unwrapping err
RECURSIVE Unwraps(_, _)
Unwraps(err, e) ==
    IF err = e THEN TRUE
    ELSE IF Len(err) <= 1 THEN FALSE
    ELSE Unwraps(Tail(err), e)

\* ------------------------------------------------------------- context
\* ctx.Value(TxKey).(pgx.Tx): the innermost handle bound in ctx, if any
CtxValue(ctx) == IF ctx = <<>> THEN NoTx ELSE ctx[Len(ctx)]

MakeContextTxSame(ctx, tx) == ctx

MakeContextTxShared(ctx, tx) ==
    Append(ctx, IF tx = NoTx THEN tx ELSE CHOOSE h \in 1..tx : \A k \in 1..tx : h <= k)

\* context.WithValue(ctx, TxKey, tx): a derived context, ctx is untouched
MakeContextTx(ctx, tx) == Append(ctx, tx)

IsNestedNever(ctx) == FALSE

IsNestedOpen(ctx) == CtxValue(ctx) # NoTx /\ handles[CtxValue(ctx)].state = "open"

IsNestedAmbient(ctx) ==
    CtxValue(ctx) # NoTx \/ \E h \in DOMAIN handles : handles[h].state = "open"

\* tx, ok := ctx.Value(TxKey).(pgx.Tx); if ok { ... nested ... }
IsNested(ctx) == CtxValue(ctx) # NoTx

ExecTargetPool(ctx) == Pool

ExecTargetAmbient(ctx) ==
    IF \E h \in DOMAIN handles : handles[h].state = "open"
    THEN CHOOSE h \in DOMAIN handles : handles[h].state = "open"
    ELSE Pool

\* pgTransactor.Exec/Query/QueryRow/CopyFrom: the handle of ctx, else the pool
ExecTarget(ctx) == IF CtxValue(ctx) # NoTx THEN CtxValue(ctx) ELSE Pool

\* ------------------------------------------------------------- manager.transaction, the pure parts
BeginFailResultFormat(id, e) == Format("can't begin transaction", id)

\* return fmt.Errorf("can't begin transaction %w", err)
BeginFailResult(id, e) == Wrap("can't begin transaction", id, e)

NestedResultWrapped(e) == IF e # Nil THEN Wrap("nested", 0, e) ELSE Nil

\* return fn(ctx)
NestedResult(e) == e

HandlerResultFormat(id, e) ==
    IF e # Nil THEN Format("failed executing code inside transaction", id) ELSE Nil

\* if err = fn(ctx); err != nil { err = fmt.Errorf("failed executing ...: %w", err) }
HandlerResult(id, e) ==
    IF e # Nil THEN Wrap("failed executing code inside transaction", id, e) ELSE Nil

RecoveredKeep(id, panicked, err) == err

\* if r := recover(); r != nil { err = fmt.Errorf("panic recovered: %v", r) }
Recovered(id, panicked, err) ==
    IF panicked THEN Format("panic recovered", id) ELSE err

TerminalCommitAlways(err) == "commit"

TerminalRollbackAlways(err) == "rollback"

\* if err != nil { rollback; return }  if nil == err { commit }
Terminal(err) == IF err # Nil THEN "rollback" ELSE "commit"

RollbackResultKeep(id, err, errRollback) == err

\* if errRollback := tx.Rollback(ctx); errRollback != nil { err = fmt.Errorf("errRollback: %w", errRollback) }
RollbackResult(id, err, errRollback) ==
    IF errRollback # Nil THEN Wrap("errRollback:", id, errRollback) ELSE err

CommitResultNil(id, errCommit) == Nil

\* err = tx.Commit(ctx); if err != nil { err = fmt.Errorf("tx commit failed: %w", err) }
CommitResult(id, errCommit) ==
    IF errCommit # Nil THEN Wrap("tx commit failed:", id, errCommit) ELSE Nil

\* ------------------------------------------------------------- records
\* One invocation of manager.transaction.
\*   ctx    the context it was called with      hctx  the context given to fn
\*   tx     the handle it began (NoTx if none)  pc    where it stands
\*   hout   how fn ended                        hret  what fn returned
\*   sub    the result of the last manager call made by fn
\*   wrote  rows fn (and the calls it made with hctx) wrote through the
\*          executor with hctx
\*   kids   manager calls fn made with hctx that have ended
\*   kidpanic  fn ended by a panic raised in such a call
\*   nBegin, nHandler, nCommit, nRollback   operations issued by this invocation
\*   termErr  the error of the terminal action    ret   the value returned
\*   kiderr  the handler of a manager call fn made with hctx returned an
\*           error after fn had written a row itself
\*   trace   what the invocation did so far, in order
Frame(id, ctx, hctx, tx, nb, nh) ==
    [id |-> id, ctx |-> ctx, hctx |-> hctx, tx |-> tx,
     pc |-> "handler", hout |-> "running", hret |-> Nil, sub |-> Nil,
     wrote |-> {}, kids |-> 0, kidpanic |-> FALSE, nBegin |-> nb, nHandler |-> nh, nCommit |-> 0,
     nRollback |-> 0, termErr |-> Nil, ret |-> Nil, kiderr |-> FALSE,
     trace |-> (IF nb = 1 THEN <<"begin">> ELSE <<>>)
                  \o (IF nh = 1 THEN <<"handler start">> ELSE <<>>)]

\* A pgx.Tx begun on the pool.
Handle(c) == [state |-> "open", writes |-> {}, nCommit |-> 0, nRollback |-> 0, chain |-> c]

Top(c) == stack[c][Len(stack[c])]

InHandler(c) == stack[c] # <<>> /\ Top(c).pc = "handler"

\* the caller can call the manager or the executor: top-level code of the
\* chain, or the handler on top of the stack
CanCall(c) == stack[c] = <<>> \/ InHandler(c)

CallerId(c) == IF stack[c] = <<>> THEN 0 ELSE Top(c).id

\* The contexts the calling code can hold: the background context, the
\* context of every handler in progress on its stack, and the contexts of
\* earlier handlers of the chain (retained past their invocation).
AvailCtx(c) ==
    {Background}
    \cup {stack[c][i].hctx : i \in DOMAIN stack[c]}
    \cup {MakeContextTx(Background, h) : h \in {k \in DOMAIN handles : handles[k].chain = c}}

\* the stack after the invocation on top returned r to its caller
Returned(s, r) ==
    LET n == Len(s)
        f == s[n]
        rest == SubSeq(s, 1, n - 1)
    IN IF n = 1 THEN rest
       ELSE [rest EXCEPT ![n - 1].sub = r,
                         ![n - 1].kids =
                             IF f.ctx = rest[n - 1].hctx THEN @ + 1 ELSE @,
                         ![n - 1].kiderr =
                             \/ @
                             \/ /\ f.ctx = rest[n - 1].hctx
                                /\ f.hout = "err"
                                /\ \E w \in rest[n - 1].wrote : w[2] = rest[n - 1].id,
                         ![n - 1].wrote =
                             IF f.ctx = rest[n - 1].hctx THEN @ \cup f.wrote ELSE @]

\* the stack after a panic left the invocation on top (no recover there)
Unwound(s) ==
    LET n == Len(s)
        f == s[n]
        rest == SubSeq(s, 1, n - 1)
    IN IF n = 1 THEN rest
       ELSE [rest EXCEPT ![n - 1].pc = "panic", ![n - 1].hout = "panic",
                         ![n - 1].trace = Append(@, "handler end"),
                         ![n - 1].kids =
                             IF f.ctx = rest[n - 1].hctx THEN @ + 1 ELSE @,
                         ![n - 1].kidpanic = (f.ctx = rest[n - 1].hctx),
                         ![n - 1].wrote =
                             IF f.ctx = rest[n - 1].hctx THEN @ \cup f.wrote ELSE @]

Init ==
    /\ stack = [c \in Chains |-> <<>>]
    /\ handles = <<>>
    /\ db = {}
    /\ calls = 0
    /\ execs = 0
    /\ escaped = [c \in Chains |-> FALSE]
    /\ routed = NoCall
    /\ raws = <<>>

\* ------------------------------------------------------------- manager.transaction
\* transaction(ctx, opts, fn) with a handle in ctx: fn(ctx) is run directly
CallNested(c, ctx) ==
    /\ CanCall(c) /\ ~escaped[c]
    /\ calls < MaxCalls /\ Len(stack[c]) < MaxDepth
    /\ ctx \in AvailCtx(c)
    /\ IsNested(ctx)
    /\ calls' = calls + 1
    /\ stack' = [stack EXCEPT ![c] = Append(@, Frame(calls + 1, ctx, ctx, NoTx, 0, 1))]
    /\ routed' = NoCall
    /\ UNCHANGED <<handles, db, execs, escaped, raws>>

\* transaction(ctx, opts, fn) without a handle in ctx, BeginTx succeeds:
\* the handle is bound in a derived context and fn is run with it
CallBegin(c, ctx) ==
    /\ CanCall(c) /\ ~escaped[c]
    /\ calls < MaxCalls /\ Len(stack[c]) < MaxDepth
    /\ ctx \in AvailCtx(c)
    /\ ~IsNested(ctx)
    /\ LET h == Len(handles) + 1 IN
        /\ handles' = Append(handles, Handle(c))
        /\ stack' = [stack EXCEPT ![c] =
               Append(@, Frame(calls + 1, ctx, MakeContextTx(ctx, h), h, 1, 1))]
    /\ calls' = calls + 1
    /\ routed' = NoCall
    /\ UNCHANGED <<db, execs, escaped, raws>>

\* transaction(ctx, opts, fn) without a handle in ctx, BeginTx fails
CallBeginFail(c, ctx) ==
    /\ CanCall(c) /\ ~escaped[c]
    /\ calls < MaxCalls /\ Len(stack[c]) < MaxDepth
    /\ ctx \in AvailCtx(c)
    /\ ~IsNested(ctx)
    /\ stack' = [stack EXCEPT ![c] =
           Append(@, [Frame(calls + 1, ctx, ctx, NoTx, 1, 0) EXCEPT
                         !.pc = "returned", !.hout = "none",
                         !.trace = Append(@, "return"),
                         !.ret = BeginFailResult(calls + 1, ErrBegin)])]
    /\ calls' = calls + 1
    /\ routed' = NoCall
    /\ UNCHANGED <<handles, db, execs, escaped, raws>>

\* ------------------------------------------------------------- pgTransactor
\* Exec, Query, QueryRow, CopyFrom (ctx, ...): the call goes to the handle
\* bound in ctx, else to the pool.  A row written to the pool is committed
\* at once (auto-commit); a handle that is no longer open refuses the call.
Exec(c, op, ctx) ==
    /\ CanCall(c) /\ ~escaped[c]
    /\ execs < MaxExec
    /\ ctx \in AvailCtx(c)
    /\ LET row == <<c, CallerId(c), ctx>>
           t == ExecTarget(ctx)
           w == op \in WriteOps
       IN /\ IF t = Pool
             THEN /\ db' = IF w THEN db \cup {row} ELSE db
                  /\ handles' = handles
             ELSE /\ db' = db
                  /\ handles' = IF w /\ handles[t].state = "open"
                                THEN [handles EXCEPT ![t].writes = @ \cup {row}]
                                ELSE handles
          /\ stack' = IF w /\ stack[c] # <<>> /\ ctx = Top(c).hctx
                      THEN [stack EXCEPT ![c][Len(stack[c])].wrote = @ \cup {row}]
                      ELSE stack
          /\ routed' = Call(c, op, ctx, t)
    /\ execs' = execs + 1
    /\ UNCHANGED <<calls, escaped, raws>>

\* BeginTx(ctx, opts) and Ping(ctx) are handed to the pool whatever ctx binds
BeginTxTargetBound(ctx) == ExecTarget(ctx)

BeginTxTarget(ctx) == Pool

PingTarget(ctx) == Pool

\* A pgx.Tx handed to the caller of the executor's BeginTx: begun on `on`.
Raw(c, ctx, t) == [chain |-> c, ctx |-> ctx, on |-> t, state |-> "open",
                   nCommit |-> 0, nRollback |-> 0]

\* BeginTx(ctx, opts): a transaction is begun (ok) or the pool refuses
BeginTx(c, ctx, ok) ==
    /\ CanCall(c) /\ ~escaped[c]
    /\ execs < MaxExec
    /\ ctx \in AvailCtx(c)
    /\ ok => Len(raws) < MaxRaw
    /\ raws' = IF ok THEN Append(raws, Raw(c, ctx, BeginTxTarget(ctx))) ELSE raws
    /\ routed' = Call(c, "BeginTx", ctx, BeginTxTarget(ctx))
    /\ execs' = execs + 1
    /\ UNCHANGED <<stack, handles, db, calls, escaped>>

\* Ping(ctx)
Ping(c, ctx) ==
    /\ CanCall(c) /\ ~escaped[c]
    /\ execs < MaxExec
    /\ ctx \in AvailCtx(c)
    /\ routed' = Call(c, "Ping", ctx, PingTarget(ctx))
    /\ execs' = execs + 1
    /\ UNCHANGED <<stack, handles, db, calls, escaped, raws>>

\* ------------------------------------------------------------- the handler fn ends
\* what fn can return: nil, an error of its own, or the result of the last
\* manager call it made
HandlerRets(f) == {Nil} \cup HandlerErrs \cup {f.sub}

RetChoices(c) == IF stack[c] = <<>> THEN {} ELSE HandlerRets(Top(c))

\* fn returns e to a nested invocation, which returns it to its caller
ReturnNested(c, e) ==
    /\ InHandler(c) /\ Top(c).tx = NoTx
    /\ e \in HandlerRets(Top(c))
    /\ stack' = [stack EXCEPT ![c][Len(stack[c])] =
           [@ EXCEPT !.pc = "returned", !.hret = e, !.ret = NestedResult(e),
                     !.trace = @ \o <<"handler end", "return">>,
                     !.hout = IF e = Nil THEN "nil" ELSE "err"]]
    /\ routed' = NoCall
    /\ UNCHANGED <<handles, db, calls, execs, escaped, raws>>

ReturnOuterNoDefer(c, e) ==
    /\ InHandler(c) /\ Top(c).tx # NoTx
    /\ e \in HandlerRets(Top(c))
    /\ stack' = [stack EXCEPT ![c][Len(stack[c])] =
           [@ EXCEPT !.pc = "returned", !.hret = e, !.ret = HandlerResult(Top(c).id, e),
                     !.trace = @ \o <<"handler end", "return">>,
                     !.hout = IF e = Nil THEN "nil" ELSE "err"]]
    /\ routed' = NoCall
    /\ UNCHANGED <<handles, db, calls, execs, escaped, raws>>

\* fn returns e to the invocation that began the handle: err is set and
\* the deferred function is about to run
ReturnOuter(c, e) ==
    /\ InHandler(c) /\ Top(c).tx # NoTx
    /\ e \in HandlerRets(Top(c))
    /\ stack' = [stack EXCEPT ![c][Len(stack[c])] =
           [@ EXCEPT !.pc = "deferred", !.hret = e, !.ret = HandlerResult(Top(c).id, e),
                     !.trace = Append(@, "handler end"),
                     !.hout = IF e = Nil THEN "nil" ELSE "err"]]
    /\ routed' = NoCall
    /\ UNCHANGED <<handles, db, calls, execs, escaped, raws>>

\* fn panics
Panic(c) ==
    /\ InHandler(c)
    /\ stack' = [stack EXCEPT ![c][Len(stack[c])] =
           [@ EXCEPT !.pc = "panic", !.hout = "panic",
                     !.trace = Append(@, "handler end")]]
    /\ routed' = NoCall
    /\ UNCHANGED <<handles, db, calls, execs, escaped, raws>>

\* a panic leaves a nested invocation, which has no deferred function; it
\* goes on in the handler that called it, or leaves the chain's stack
PanicNested(c) ==
    /\ stack[c] # <<>> /\ Top(c).pc = "panic" /\ Top(c).tx = NoTx
    /\ stack' = [stack EXCEPT ![c] = Unwound(@)]
    /\ escaped' = [escaped EXCEPT ![c] = Len(stack[c]) = 1]
    /\ routed' = NoCall
    /\ UNCHANGED <<handles, db, calls, execs, raws>>

\* the invocation on top has returned: its caller goes on with the result
Resume(c) ==
    /\ stack[c] # <<>> /\ Top(c).pc = "returned"
    /\ stack' = [stack EXCEPT ![c] = Returned(@, Top(c).ret)]
    /\ routed' = NoCall
    /\ UNCHANGED <<handles, db, calls, execs, escaped, raws>>

\* ------------------------------------------------------------- the deferred function
\* tx.Rollback / tx.Commit on handle h; err is what the handle answers
Closed(h, op, err) ==
    LET t == handles[h] IN
    [handles EXCEPT ![h] =
        [t EXCEPT !.state = IF t.state # "open" THEN t.state
                            ELSE IF op = "commit" /\ err = Nil THEN "committed"
                            ELSE "closed",
                  !.nCommit = IF op = "commit" THEN @ + 1 ELSE @,
                  !.nRollback = IF op = "rollback" THEN @ + 1 ELSE @]]

\* the answers handle h can give to Commit or Rollback
Answers(h, op) ==
    IF handles[h].state # "open" THEN {ErrTxClosed}
    ELSE {Nil, IF op = "commit" THEN ErrCommit ELSE ErrRollback}

\* recover, then roll back, then return
DeferredRollback(c, ans) ==
    /\ stack[c] # <<>> /\ Top(c).tx # NoTx /\ Top(c).pc \in {"deferred", "panic"}
    /\ LET f0 == Top(c)
           err == Recovered(f0.id, f0.pc = "panic", f0.ret)
       IN /\ Terminal(err) = "rollback"
          /\ ans \in Answers(f0.tx, "rollback")
          /\ handles' = Closed(f0.tx, "rollback", ans)
          /\ stack' = [stack EXCEPT ![c][Len(stack[c])] =
                 [f0 EXCEPT !.pc = "returned", !.nRollback = @ + 1,
                            !.trace = @ \o <<"rollback", "return">>,
                            !.termErr = ans, !.ret = RollbackResult(f0.id, err, ans)]]
    /\ routed' = NoCall
    /\ UNCHANGED <<db, calls, execs, escaped, raws>>

DeferredCommitThenRollback(c, ans) ==
    /\ stack[c] # <<>> /\ Top(c).tx # NoTx /\ Top(c).pc \in {"deferred", "panic"}
    /\ LET f0 == Top(c)
           err == Recovered(f0.id, f0.pc = "panic", f0.ret)
           again == IF ans = Nil THEN 0 ELSE 1
       IN /\ Terminal(err) = "commit"
          /\ ans \in Answers(f0.tx, "commit")
          /\ handles' = [Closed(f0.tx, "commit", ans) EXCEPT ![f0.tx].nRollback = @ + again]
          /\ db' = IF ans = Nil /\ handles[f0.tx].state = "open"
                   THEN db \cup handles[f0.tx].writes ELSE db
          /\ stack' = [stack EXCEPT ![c][Len(stack[c])] =
                 [f0 EXCEPT !.pc = "returned", !.nCommit = @ + 1,
                            !.nRollback = @ + again,
                            !.trace = @ \o (IF ans = Nil THEN <<"commit", "return">>
                                            ELSE <<"commit", "rollback", "return">>),
                            !.termErr = ans, !.ret = CommitResult(f0.id, ans)]]
    /\ routed' = NoCall
    /\ UNCHANGED <<calls, execs, escaped, raws>>

\* recover, then commit, then return
DeferredCommit(c, ans) ==
    /\ stack[c] # <<>> /\ Top(c).tx # NoTx /\ Top(c).pc \in {"deferred", "panic"}
    /\ LET f0 == Top(c)
           err == Recovered(f0.id, f0.pc = "panic", f0.ret)
       IN /\ Terminal(err) = "commit"
          /\ ans \in Answers(f0.tx, "commit")
          /\ handles' = Closed(f0.tx, "commit", ans)
          /\ db' = IF ans = Nil /\ handles[f0.tx].state = "open"
                   THEN db \cup handles[f0.tx].writes ELSE db
          /\ stack' = [stack EXCEPT ![c][Len(stack[c])] =
                 [f0 EXCEPT !.pc = "returned", !.nCommit = @ + 1,
                            !.trace = @ \o <<"commit", "return">>,
                            !.termErr = ans, !.ret = CommitResult(f0.id, ans)]]
    /\ routed' = NoCall
    /\ UNCHANGED <<calls, execs, escaped, raws>>

\* one step of chain c in the manager
StepManager(c) ==
    \/ \E ctx \in AvailCtx(c) : CallNested(c, ctx)
    \/ \E ctx \in AvailCtx(c) : CallBegin(c, ctx)
    \/ \E ctx \in AvailCtx(c) : CallBeginFail(c, ctx)
    \/ \E e \in RetChoices(c) : ReturnNested(c, e)
    \/ \E e \in RetChoices(c) : ReturnOuter(c, e)
    \/ Panic(c)
    \/ PanicNested(c)
    \/ Resume(c)
    \/ \E ans \in {Nil, ErrRollback, ErrTxClosed} : DeferredRollback(c, ans)
    \/ \E ans \in {Nil, ErrCommit, ErrTxClosed} : DeferredCommit(c, ans)

\* one step of chain c: in the manager, or a statement run through the executor
Step(c) ==
    \/ StepManager(c)
    \/ \E ctx \in AvailCtx(c) : Exec(c, "Exec", ctx)

\* the other operations of the executor that look at the context
StepExecutor(c) ==
    \E ctx \in AvailCtx(c), op \in RoutedOps \ {"Exec"} : Exec(c, op, ctx)

\* the operations of the executor that are handed to the pool as they are
StepPool(c) ==
    \/ \E ctx \in AvailCtx(c), ok \in BOOLEAN : BeginTx(c, ctx, ok)
    \/ \E ctx \in AvailCtx(c) : Ping(c, ctx)

\* One call chain runs alone: the properties of a single chain hold of it.
Next == Step(Main)

Spec == Init /\ [][Next]_vars

\* One call chain that uses every operation of the executor that looks at
\* the context.
NextExec == Step(Main) \/ StepExecutor(Main)

SpecExec == Init /\ [][NextExec]_vars

\* One call chain that uses the manager and the operations of the executor
\* that do not look at the context.
NextPool == StepManager(Main) \/ StepPool(Main)

SpecPool == Init /\ [][NextPool]_vars

\* Several call chains run concurrently on the same manager, executor and pool.
NextConc == \E c \in Chains : Step(c)

SpecConc == Init /\ [][NextConc]_vars

\* ------------------------------------------------------------- vocabulary of the properties
Invocations(c) == {stack[c][i] : i \in DOMAIN stack[c]}

AllInvocations == UNION {Invocations(c) : c \in Chains}

\* called with a context that binds no handle / that binds one
Outermost(f) == CtxValue(f.ctx) = NoTx
NestedCall(f) == CtxValue(f.ctx) # NoTx

BeginOk(f) == f.tx # NoTx
Done(f) == f.pc = "returned"
Panicked(f) == f.hout = "panic"

\* invocation i of stack s was called with the context of the handler below it
Linked(s, i) == i > 1 /\ s[i].ctx = s[i - 1].hctx

\* the invocation at which the call chain of invocation i starts
RECURSIVE Root(_, _)
Root(s, i) == IF Linked(s, i) THEN Root(s, i - 1) ELSE i

C2_NilCommits ==
    \A f \in AllInvocations :
        (Outermost(f) /\ BeginOk(f) /\ f.hout = "nil") =>
            /\ f.nRollback = 0 /\ handles[f.tx].nRollback = 0
            /\ Done(f) =>
                /\ f.nCommit = 1 /\ handles[f.tx].nCommit = 1
                /\ f.termErr # Nil => (f.ret # Nil /\ Unwraps(f.ret, f.termErr))
                /\ f.termErr = Nil => f.ret = Nil

C2_Witness ==
    \E f \in AllInvocations :
        Outermost(f) /\ BeginOk(f) /\ f.hout = "nil" /\ Done(f)
        /\ f.termErr = ErrCommit /\ f.ret # Nil

\* C3: in an outermost invocation whose begin succeeded and whose handler
\* returned a non-nil error e, Commit is never invoked, Rollback is invoked
\* once, and when the rollback succeeds the manager returns a non-nil error
\* whose unwrap chain contains e.
C3_ErrRollsBack ==
    \A f \in AllInvocations :
        (Outermost(f) /\ BeginOk(f) /\ f.hout = "err") =>
            /\ f.hret # Nil
            /\ f.nCommit = 0 /\ handles[f.tx].nCommit = 0
            /\ Done(f) =>
                /\ f.nRollback = 1 /\ handles[f.tx].nRollback = 1
                /\ f.termErr = Nil => (f.ret # Nil /\ Unwraps(f.ret, f.hret))

C3_Witness ==
    \E f \in AllInvocations :
        Outermost(f) /\ BeginOk(f) /\ f.hout = "err" /\ Done(f)
        /\ f.termErr = Nil /\ f.nRollback = 1

\* C4: a panic of the handler of an outermost invocation, or of a handler
\* nested below it, stops at the outermost invocation: Commit is never
\* invoked, Rollback is invoked once, the invocation returns a non-nil error,
\* and the panic does not go on in the caller.
C4_PanicRecovered ==
    /\ \A f \in AllInvocations :
        (Outermost(f) /\ BeginOk(f) /\ Panicked(f)) =>
            /\ f.nCommit = 0 /\ handles[f.tx].nCommit = 0
            /\ Done(f) =>
                /\ f.nRollback = 1 /\ handles[f.tx].nRollback = 1
                /\ f.ret # Nil
    /\ \A c \in Chains : \A i \in DOMAIN stack[c] :
        \* a panic is in flight only in the invocation on top, and an
        \* invocation that began a handle hands none to the handler below
        /\ stack[c][i].pc = "panic" => i = Len(stack[c])
        /\ (i > 1 /\ BeginOk(stack[c][i]) /\ Done(stack[c][i])) =>
              stack[c][i - 1].pc = "handler"
    /\ \A c \in Chains :
        escaped[c] => \A h \in DOMAIN handles :
                          handles[h].chain = c => handles[h].state # "open"

C4_Witness ==
    \E f \in AllInvocations :
        Outermost(f) /\ BeginOk(f) /\ Panicked(f) /\ f.kidpanic /\ Done(f)
        /\ f.nRollback = 1 /\ f.ret # Nil

\* C5: in an outermost invocation whose handler returned an error or
\* panicked and whose Rollback failed, the manager returns an error that
\* wraps the rollback error and that is not the handler's error.
C5_RollbackFailureSurfaces ==
    \A f \in AllInvocations :
        (Outermost(f) /\ BeginOk(f) /\ Done(f)
            /\ f.hout \in {"err", "panic"} /\ f.termErr # Nil) =>
            /\ f.nRollback = 1 /\ f.nCommit = 0
            /\ Unwraps(f.ret, f.termErr)
            /\ f.ret # f.hret

C5_Witness ==
    \E f \in AllInvocations :
        /\ Outermost(f) /\ BeginOk(f) /\ Done(f)
        /\ f.hout = "err" /\ f.termErr = ErrRollback
        /\ Unwraps(f.ret, ErrRollback)

\* C6: whenever the handler of an outermost invocation returned a non-nil
\* error e, the error the manager returns has e in its unwrap chain, also
\* when the rollback failed.
C6_HandlerErrorKept ==
    \A f \in AllInvocations :
        (Outermost(f) /\ BeginOk(f) /\ Done(f) /\ f.hout = "err") =>
            Unwraps(f.ret, f.hret)

\* C7: an outermost invocation whose BeginTx failed has returned a non-nil
\* error wrapping the begin error, has not run the handler and has invoked
\* neither Commit nor Rollback.
C7_BeginFailure ==
    \A f \in AllInvocations :
        (Outermost(f) /\ f.nBegin = 1 /\ ~BeginOk(f)) =>
            /\ Done(f)
            /\ f.ret # Nil /\ Unwraps(f.ret, ErrBegin)
            /\ f.nHandler = 0 /\ f.hout = "none"
            /\ f.nCommit = 0 /\ f.nRollback = 0

C7_Witness ==
    \E f \in AllInvocations :
        Outermost(f) /\ f.nBegin = 1 /\ ~BeginOk(f) /\ Done(f)

\* C8: an invocation called with a context that binds a handle runs the
\* handler once with that same context, issues no BeginTx, Commit or
\* Rollback, and returns what the handler returned, unchanged.
C8_NestedPassThrough ==
    \A f \in AllInvocations :
        NestedCall(f) =>
            /\ f.nHandler = 1
            /\ f.hctx = f.ctx
            /\ f.nBegin = 0 /\ f.nCommit = 0 /\ f.nRollback = 0 /\ f.tx = NoTx
            /\ Done(f) => f.ret = f.hret

C8_Witness ==
    \E f \in AllInvocations :
        NestedCall(f) /\ Done(f) /\ f.hout = "err" /\ f.ret = f.hret /\ f.ret # Nil

\* C9: every handler runs with a context that binds a handle; the context
\* of the handler of an invocation that began a handle binds that handle,
\* which stays open until the terminal action; an invocation called with
\* the context of the handler below it begins nothing and its handler
\* observes the same handle; so one call chain never has two handles open.
C9_SingleHandle ==
    \A c \in Chains : \A i \in DOMAIN stack[c] :
        LET s == stack[c]
            f == s[i]
        IN /\ f.nHandler = 1 => CtxValue(f.hctx) # NoTx
           /\ BeginOk(f) =>
                 /\ CtxValue(f.hctx) = f.tx
                 /\ f.pc \in {"handler", "deferred", "panic"} =>
                        handles[f.tx].state = "open"
           /\ Linked(s, i) =>
                 /\ f.tx = NoTx /\ f.nBegin = 0
                 /\ CtxValue(f.hctx) = CtxValue(s[i - 1].hctx)
                 /\ CtxValue(f.hctx) = CtxValue(s[Root(s, i)].hctx)
           /\ Cardinality({s[j].tx : j \in {k \in DOMAIN s :
                              Root(s, k) = Root(s, i) /\ s[k].tx # NoTx}}) <= 1

C9_Witness ==
    \E c \in Chains :
        /\ Len(stack[c]) >= 2
        /\ Linked(stack[c], 2)
        /\ BeginOk(stack[c][1]) /\ Outermost(stack[c][1])
        /\ stack[c][2].pc = "handler"
        /\ CtxValue(stack[c][2].hctx) = stack[c][1].tx
        /\ handles[stack[c][1].tx].state = "open"

\* C10: the rows written through the executor with the handler's context,
\* by the handler of an outermost invocation and by the handlers of the
\* invocations nested in it, are all held by the one handle and none is
\* visible while the invocation runs; once it has returned they are all
\* visible if its Commit succeeded and none is otherwise; the handle sees
\* at most one Commit, and none from a nested invocation.
C10_AtomicVisibility ==
    \A c \in Chains : \A i \in DOMAIN stack[c] :
        LET s == stack[c]
            r == s[Root(s, i)]
            f == s[i]
        IN (Outermost(r) /\ BeginOk(r)) =>
              /\ handles[r.tx].nCommit <= 1
              /\ i # Root(s, i) => f.nCommit = 0
              /\ ~Done(r) =>
                    /\ f.wrote \subseteq handles[r.tx].writes
                    /\ f.wrote \cap db = {}
              /\ (Done(r) /\ r.nCommit = 1 /\ r.termErr = Nil) =>
                    /\ r.wrote \subseteq db
                    /\ handles[r.tx].nCommit = 1
              /\ (Done(r) /\ ~(r.nCommit = 1 /\ r.termErr = Nil)) =>
                    r.wrote \cap db = {}

C10_Witness ==
    \E f \in AllInvocations :
        /\ Outermost(f) /\ BeginOk(f) /\ Done(f) /\ f.ret = Nil
        /\ f.kids >= 1
        /\ \E a, b \in f.wrote : a[2] = f.id /\ b[2] # f.id
        /\ f.wrote \subseteq db

\* the rows the handler of invocation f wrote itself with its own context
OwnRows(f) == {w \in f.wrote : w[2] = f.id}

\* C11 as stated: when the handler of an outermost invocation has written a
\* row through the executor and the handler of an invocation nested in it
\* then returned an error, the handle is rolled back and the row is not
\* visible once the outermost invocation has returned.
C11_NestedErrorAlwaysRollsBack ==
    \A f \in AllInvocations :
        (Outermost(f) /\ BeginOk(f) /\ Done(f) /\ f.kiderr) =>
            /\ f.nRollback = 1 /\ f.nCommit = 0
            /\ OwnRows(f) \cap db = {}

\* C11, amended: when the handler of an outermost invocation has written a
\* row through the executor, the handler of an invocation nested in it then
\* returned an error, and the outer handler itself ends with an error (it
\* returns the nested error or another one) or panics, then Rollback and no
\* Commit is invoked on the handle and the row is not visible once the
\* outermost invocation has returned.  The outcome follows the outer
\* handler's own result: the nested error reaches it as a plain return value.
C11_PropagatedNestedErrorRollsBack ==
    \A f \in AllInvocations :
        (Outermost(f) /\ BeginOk(f) /\ Done(f) /\ f.kiderr /\ f.hout # "nil") =>
            /\ f.nRollback = 1 /\ f.nCommit = 0
            /\ handles[f.tx].nRollback = 1 /\ handles[f.tx].nCommit = 0
            /\ handles[f.tx].state # "committed"
            /\ OwnRows(f) \cap db = {}

C11_Witness ==
    \E f \in AllInvocations :
        /\ Outermost(f) /\ BeginOk(f) /\ Done(f) /\ f.kiderr
        /\ f.hout = "err" /\ f.hret = f.sub /\ f.hret \in HandlerErrs
        /\ OwnRows(f) # {}
        /\ f.nRollback = 1 /\ f.termErr = Nil
        /\ OwnRows(f) \cap db = {}

\* a frame without the record of the rows its handler wrote
Bare(f) == [f EXCEPT !.wrote = {}]

IsPrefix(p, q) == Len(p) <= Len(q) /\ SubSeq(q, 1, Len(p)) = p

\* the order of events of an outermost invocation that ends with terminal action t
Lifecycle(t) == <<"begin", "handler start", "handler end", t, "return">>

\* C13: an outermost invocation whose begin succeeded goes through BeginTx,
\* handler start, handler end (return or panic), Commit or Rollback, return,
\* in this order, whichever way its handler ends; the handle has no
\* terminal action while the handler runs and has had one when the
\* invocation has returned; a handle without Commit and without Rollback
\* always belongs to an invocation that has not returned yet.
C13_ReleasedBeforeReturn ==
    /\ \A f \in AllInvocations :
          (Outermost(f) /\ BeginOk(f)) =>
             /\ \E t \in {"commit", "rollback"} : IsPrefix(f.trace, Lifecycle(t))
             /\ f.pc = "handler" => f.trace = <<"begin", "handler start">>
             /\ f.pc \in {"handler", "deferred", "panic"} =>
                    /\ handles[f.tx].nCommit + handles[f.tx].nRollback = 0
                    /\ handles[f.tx].state = "open"
             /\ f.pc \in {"deferred", "panic"} =>
                    f.trace = <<"begin", "handler start", "handler end">>
             /\ Done(f) =>
                    /\ f.trace = Lifecycle(IF f.nCommit = 1 THEN "commit" ELSE "rollback")
                    /\ handles[f.tx].nCommit + handles[f.tx].nRollback = 1
                    /\ f.hout \in {"nil", "err", "panic"}
                    /\ handles[f.tx].state # "open"
    /\ \A h \in DOMAIN handles :
          handles[h].nCommit + handles[h].nRollback = 0 =>
             \E f \in AllInvocations : f.tx = h /\ ~Done(f)

C13_Witness ==
    \E f \in AllInvocations :
        /\ Outermost(f) /\ BeginOk(f) /\ Done(f)
        /\ f.kidpanic /\ f.hout = "panic"
        /\ f.trace = Lifecycle("rollback")
        /\ handles[f.tx].nRollback = 1 /\ handles[f.tx].nCommit = 0

\* C14: with several call chains running concurrently, the handles begun by
\* the invocations in progress are all distinct and each belongs to the chain
\* of its invocation; a handle holds rows of its own chain only, written with
\* a context that binds it, and an executor call that goes to a handle goes
\* to a handle of the calling chain; the terminal action of an invocation is
\* applied to its own handle, once; Commit or Rollback and a nil or non-nil
\* return follow the invocation's own handler result and the answer of its
\* own terminal action.
C14_ChainsIndependent ==
    /\ \A c, d \in Chains : \A i \in DOMAIN stack[c], j \in DOMAIN stack[d] :
          (BeginOk(stack[c][i]) /\ stack[c][i].tx = stack[d][j].tx) => (c = d /\ i = j)
    /\ \A c \in Chains : \A f \in Invocations(c) :
          /\ BeginOk(f) =>
                /\ handles[f.tx].chain = c
                /\ CtxValue(f.hctx) = f.tx
                /\ handles[f.tx].nCommit = f.nCommit
                /\ handles[f.tx].nRollback = f.nRollback
                /\ f.nCommit + f.nRollback = (IF Done(f) THEN 1 ELSE 0)
                /\ Done(f) =>
                      /\ f.nCommit = 1 <=> f.hout = "nil"
                      /\ f.ret = Nil <=> (f.hout = "nil" /\ f.termErr = Nil)
                      /\ handles[f.tx].state = "committed" <=> f.ret = Nil
          /\ \A w \in f.wrote : w[1] = c
    /\ \A h \in DOMAIN handles : \A w \in handles[h].writes :
          w[1] = handles[h].chain /\ CtxValue(w[3]) = h
    /\ (routed.op # "none" /\ routed.target # Pool) =>
          handles[routed.target].chain = routed.chain

C14_Witness ==
    \E c, d \in Chains :
        /\ c # d /\ stack[c] # <<>> /\ stack[d] # <<>>
        /\ LET f == stack[c][1]
               g == stack[d][1]
           IN /\ BeginOk(f) /\ BeginOk(g) /\ f.tx < g.tx
              /\ f.pc = "handler" /\ handles[f.tx].state = "open"
              /\ f.wrote # {} /\ f.wrote \subseteq handles[f.tx].writes
              /\ Done(g) /\ g.hout = "err" /\ g.nRollback = 1
              /\ g.wrote # {} /\ g.wrote \subseteq handles[g.tx].writes

\* how many times event e occurs in trace t
Count(t, e) == Cardinality({i \in DOMAIN t : t[i] = e})

\* C15: one invocation attempts BeginTx at most once and runs the handler at
\* most once, exactly once when its begin succeeded or it is nested; after
\* a failed begin it has run no handler and issued no Commit or Rollback;
\* it issues at most one terminal action, so a failed Commit is followed by
\* no Rollback and no second Commit, and a failed Rollback by nothing; the
\* handle of an invocation in progress is its own fresh one, open and
\* without terminal action, whatever happened to the earlier handles.
C15_NoRetry ==
    \A f \in AllInvocations :
        /\ f.nBegin = Count(f.trace, "begin") /\ f.nBegin <= 1
        /\ f.nHandler = Count(f.trace, "handler start") /\ f.nHandler <= 1
        /\ f.nCommit = Count(f.trace, "commit")
        /\ f.nRollback = Count(f.trace, "rollback")
        /\ f.nCommit + f.nRollback <= 1
        /\ Count(f.trace, "handler end") <= 1 /\ Count(f.trace, "return") <= 1
        /\ (BeginOk(f) \/ NestedCall(f)) => f.nHandler = 1
        /\ (Outermost(f) /\ ~BeginOk(f)) =>
              /\ f.nBegin = 1 /\ f.nHandler = 0 /\ f.nCommit + f.nRollback = 0
              /\ Done(f) /\ f.ret # Nil
        /\ (Done(f) /\ f.termErr # Nil) =>
              /\ f.nCommit + f.nRollback = 1
              /\ handles[f.tx].nCommit + handles[f.tx].nRollback = 1
              /\ f.ret # Nil
        /\ (BeginOk(f) /\ ~Done(f)) =>
              /\ handles[f.tx].state = "open"
              /\ handles[f.tx].nCommit + handles[f.tx].nRollback = 0
              /\ \A h \in DOMAIN handles : h # f.tx /\ handles[h].state = "open" =>
                     \E g \in AllInvocations : g.tx = h /\ ~Done(g)

C15_Witness ==
    \E f \in AllInvocations : \E h \in DOMAIN handles :
        /\ Outermost(f) /\ BeginOk(f) /\ f.pc = "handler" /\ f.ctx = Background
        /\ h < f.tx
        /\ handles[h].nCommit = 1 /\ handles[h].nRollback = 0
        /\ handles[h].state = "closed"
        /\ handles[f.tx].state = "open"

\* C16: an outermost invocation that has returned returned nil exactly when
\* its begin succeeded, its handler returned nil and did not panic, and
\* Commit was invoked and succeeded; after a nil return Rollback was never
\* invoked on the handle and its rows are committed; after a non-nil return
\* the handle is not committed.
C16_NilIffCommitted ==
    \A f \in AllInvocations :
        (Outermost(f) /\ Done(f)) =>
            /\ f.ret = Nil <=>
                  /\ BeginOk(f)
                  /\ f.hout = "nil" /\ f.hret = Nil
                  /\ f.nCommit = 1 /\ f.termErr = Nil
            /\ f.ret = Nil =>
                  /\ f.nRollback = 0 /\ handles[f.tx].nRollback = 0
                  /\ handles[f.tx].state = "committed"
                  /\ f.wrote \subseteq db
            /\ (f.ret # Nil /\ BeginOk(f)) =>
                  /\ handles[f.tx].state # "committed"
                  /\ f.wrote \cap db = {}

C16_Witness ==
    /\ \E f \in AllInvocations :
          /\ Outermost(f) /\ Done(f) /\ f.ret = Nil
          /\ f.wrote # {} /\ f.wrote \subseteq db
    /\ \E h \in DOMAIN handles :
          handles[h].nCommit = 1 /\ handles[h].state = "closed"

Stale(f) == NestedCall(f) /\ handles[CtxValue(f.ctx)].state # "open"

\* C18: an invocation called with a context that binds a handle, open or
\* already committed or rolled back, attempts no BeginTx, runs its handler
\* once with that very context and issues no Commit or Rollback, and leaves
\* the terminal actions of the bound handle as they were; an Exec, Query,
\* QueryRow or CopyFrom call made with a context that binds a handle goes
\* to that handle, terminated or not, and a row refused by a terminated
\* handle is neither held by it nor visible.
C18_StaleContextIsNested ==
    /\ \A f \in AllInvocations :
          NestedCall(f) =>
             /\ f.nBegin = 0 /\ f.nHandler = 1
             /\ f.hctx = f.ctx /\ f.tx = NoTx
             /\ f.nCommit = 0 /\ f.nRollback = 0
             /\ Count(f.trace, "begin") + Count(f.trace, "commit")
                   + Count(f.trace, "rollback") = 0
             /\ Stale(f) =>
                   /\ handles[CtxValue(f.ctx)].nCommit + handles[CtxValue(f.ctx)].nRollback = 1
                   /\ \A w \in f.wrote :
                          w \notin handles[CtxValue(f.ctx)].writes /\ w \notin db
    /\ (routed.op \in RoutedOps /\ CtxValue(routed.ctx) # NoTx) =>
          /\ routed.target = CtxValue(routed.ctx)
          /\ routed.target # Pool
          /\ (routed.op \in WriteOps /\ handles[routed.target].state # "open") =>
                LET row == <<routed.chain, CallerId(routed.chain), routed.ctx>>
                IN row \notin handles[routed.target].writes /\ row \notin db

C18_Witness ==
    \E f \in AllInvocations :
        /\ Stale(f) /\ f.pc = "handler"
        /\ handles[CtxValue(f.ctx)].state = "committed"
        /\ routed.op = "Exec" /\ routed.ctx = f.hctx
        /\ routed.target = CtxValue(f.ctx)
        /\ f.wrote # {} /\ f.wrote \cap db = {}

\* C19: a BeginTx or Ping call of the executor goes to the pool whatever the
\* passed context binds; a transaction begun through the executor is begun
\* on the pool, is none of the manager's handles, and is open without Commit
\* and without Rollback whatever the manager invocations around it did, so
\* it can be open beside the open handle its context binds; an invocation
\* of the manager still has one handle only, the one it began.
C19_ExecutorBeginIgnoresContext ==
    /\ routed.op \in {"BeginTx", "Ping"} => routed.target = Pool
    /\ Len(raws) <= execs
    /\ \A i \in DOMAIN raws :
          /\ raws[i].on = Pool
          /\ raws[i].state = "open"
          /\ raws[i].nCommit = 0 /\ raws[i].nRollback = 0
    /\ \A f \in AllInvocations :
          /\ BeginOk(f) => f.tx \in DOMAIN handles /\ CtxValue(f.hctx) = f.tx
          /\ NestedCall(f) => f.tx = NoTx /\ CtxValue(f.hctx) = CtxValue(f.ctx)
    /\ \A h \in DOMAIN handles : handles[h].nCommit + handles[h].nRollback <= 1

C19_Witness ==
    \E i \in DOMAIN raws : \E f \in AllInvocations :
        /\ CtxValue(raws[i].ctx) # NoTx
        /\ raws[i].ctx = f.hctx /\ BeginOk(f) /\ Done(f)
        /\ f.nRollback = 1 /\ handles[f.tx].state = "closed"
        /\ raws[i].on = Pool /\ raws[i].state = "open"
====
